---- MODULE Spec2Model ----
(***************************************************************************)
(* Model of package block (src/block/blockchain.go): the Blockchain with   *)
(* its chain of Blocks and its transaction pool, AddTransaction, Mining,   *)
(* CreateBlock, ProofOfWork, ValidProof, CopyTransactionPool and           *)
(* CalculateTotalAmount.                                                   *)
(*                                                                         *)
(* Abstractions.  sha256.Sum256 is a small deterministic digest over the   *)
(* JSON encoding (HashLen bytes, every hex digit below NibbleSpan); the    *)
(* JSON encoding is the sequence of the encoded field values; float32      *)
(* values are whole units, rounded as float32 rounds them; an ECDSA        *)
(* signature is the pair (signing key, signed digest);                     *)
(* time.Now().UnixNano() is any value of Times.                            *)
(***************************************************************************)
EXTENDS Integers, Sequences, FiniteSets, TLC

---------------------------------------------------------------------------
(* Program constants, src/block/blockchain.go:15-19 *)
MiningDifficulty == 3
MiningSender == "THE BLOCKCHAIN"
MiningReward == 1

(* Bounds of the model: the blocks of the chain, the transactions that    *)
(* clients submit over a run, the bytes of a digest and the values of one  *)
(* of its hex digits                                                       *)
MaxChain == 3
MaxTx == 2
HashLen == 3
NibbleSpan == 2

(* Inputs of the model *)
Addrs == {"A", "B"}
NodeAddrs == {"A"}
Senders == Addrs \cup {MiningSender}
Times == {1}
Keys == {1, 2}
Ports == {5000}

---------------------------------------------------------------------------
(* Go values: a slice is nil or a sequence of elements; a pointer is nil   *)
(* or refers to a value.                                                   *)
NilSlice == [isNil |-> TRUE, elems |-> <<>>]
MakeSlice(s) == [isNil |-> FALSE, elems |-> s]
append(sl, t) == MakeSlice(Append(sl.elems, t))
len(sl) == Len(sl.elems)

NilPublicKey == [isNil |-> TRUE, key |-> 0]
PublicKey(k) == [isNil |-> FALSE, key |-> k]
NilSignature == [isNil |-> TRUE, R |-> 0, S |-> 0]
Signature(r, s) == [isNil |-> FALSE, R |-> r, S |-> s]

NewTransaction(sender, recipient, value) ==
    [senderBlockchainAddress |-> sender,
     recipientBlockchainAddress |-> recipient,
     value |-> value]

---------------------------------------------------------------------------
(* Hashing *)
HashSpace == NibbleSpan ^ (2 * HashLen)
MaxNonce == HashSpace

ZeroHash == [i \in 1..HashLen |-> 0]

(* encoding/json of a string: the code of its bytes *)
StringJSON(s) ==
    CASE s = MiningSender -> 1
      [] s = "A" -> 2
      [] s = "B" -> 3
      [] OTHER -> 0

TransactionMarshalJSON(t) ==
    <<StringJSON(t.senderBlockchainAddress),
      StringJSON(t.recipientBlockchainAddress),
      t.value>>

RECURSIVE TransactionsJSON(_)
TransactionsJSON(ts) ==
    IF ts = <<>> THEN <<>>
    ELSE TransactionMarshalJSON(Head(ts)) \o TransactionsJSON(Tail(ts))

(* a nil slice encodes as null, any other as the list of its elements *)
SliceJSON(sl) ==
    IF sl.isNil THEN <<0>> ELSE <<1 + len(sl)>> \o TransactionsJSON(sl.elems)

(* fmt.Sprintf("%x", [32]byte): two hex digits per byte, high digit first *)
Sprintfx(h) ==
    [j \in 1..(2 * Len(h)) |->
        IF j % 2 = 1 THEN h[(j + 1) \div 2] \div 16 ELSE h[j \div 2] % 16]

BlockMarshalJSON(b) ==
    <<b.timestamp, b.nonce>> \o Sprintfx(b.previousHash) \o SliceJSON(b.transactions)

RECURSIVE Mix(_, _)
Mix(m, i) ==
    IF i = 0 THEN 0 ELSE (Mix(m, i - 1) * 5 + m[i] + 1) % HashSpace

(* the digest of message m; m and the mixed value are bound so that they   *)
(* are computed once                                                       *)
Sum256(m) ==
    LET digit(x, j) == (x \div (NibbleSpan ^ (j - 1))) % NibbleSpan
        digest(x) == [i \in 1..HashLen |->
                         16 * digit(x, 2 * i - 1) + digit(x, 2 * i)]
    IN  CHOOSE h \in UNION {{digest(x) : x \in {Mix(mm, Len(mm))}} : mm \in {m}} :
            TRUE

Hash(b) == Sum256(BlockMarshalJSON(b))

---------------------------------------------------------------------------
(* Blocks *)
Block(timestamp, nonce, previousHash, transactions) ==
    [timestamp |-> timestamp, nonce |-> nonce,
     previousHash |-> previousHash, transactions |-> transactions]

ZeroBlock == Block(0, 0, ZeroHash, NilSlice)

NewBlock(nonce, previousHash, transactions, now) ==
    Block(now, nonce, previousHash, transactions)

LastBlock(ch) == ch[Len(ch)]

---------------------------------------------------------------------------
(* Signatures.  Sign is the wallet's half (crypto/ecdsa Sign with the      *)
(* private key of pair k); ecdsaVerify is crypto/ecdsa Verify: it accepts  *)
(* exactly the signatures made with the key's private half over the same   *)
(* digest, and rejects r <= 0 or s <= 0.                                   *)
DigestCode(h) == 1 + Mix(h, Len(h))

Sign(k, h) == Signature(k, DigestCode(h))

ecdsaVerify(pub, h, r, s) ==
    r > 0 /\ s > 0 /\ r = pub.key /\ s = DigestCode(h)

(* The outcomes of VerifyTransactionSignature: "true", "false" or "panic". *)
(* s.R on a nil s is a nil dereference.  ecdsa.Verify dereferences a nil   *)
(* public key; whether it rejects r <= 0 or s <= 0 before doing so depends *)
(* on the library version, so both outcomes are possible there.            *)
VerifyTransactionSignature(senderPublicKey, s, t) ==
    LET m == TransactionMarshalJSON(t)
        h == Sum256(m)
    IN  IF s.isNil THEN {"panic"}
        ELSE IF senderPublicKey.isNil
             THEN IF s.R <= 0 \/ s.S <= 0 THEN {"panic", "false"} ELSE {"panic"}
        ELSE IF ecdsaVerify(senderPublicKey, h, s.R, s.S) THEN {"true"}
        ELSE {"false"}

---------------------------------------------------------------------------
(* Pure operations of Blockchain, on a chain ch and a pool pl *)
CopyTransactionPool(pl) ==
    MakeSlice([i \in 1..len(pl) |->
        NewTransaction(pl.elems[i].senderBlockchainAddress,
                       pl.elems[i].recipientBlockchainAddress,
                       pl.elems[i].value)])

ValidProof(nonce, previousHash, transactions, difficulty) ==
    LET zeros == [i \in 1..difficulty |-> 0]
        guessBlock == Block(0, nonce, previousHash, transactions)
    IN  \E guessHash \in {Hash(guessBlock)} :
            LET guessHashStr == Sprintfx(guessHash)
            IN  SubSeq(guessHashStr, 1, difficulty) = zeros

(* ProofOfWorkLoop searching for one leading zero fewer *)
RECURSIVE ProofOfWorkLoop_WeakDifficulty(_, _, _)
ProofOfWorkLoop_WeakDifficulty(nonce, previousHash, transactions) ==
    IF nonce > MaxNonce THEN nonce
    ELSE IF ~ValidProof(nonce, previousHash, transactions, MiningDifficulty - 1)
         THEN ProofOfWorkLoop_WeakDifficulty(nonce + 1, previousHash, transactions)
    ELSE nonce

(* the loop of ProofOfWork from a given nonce; a result above MaxNonce     *)
(* stands for a search that has not ended within the bound                 *)
RECURSIVE ProofOfWorkLoop(_, _, _)
ProofOfWorkLoop(nonce, previousHash, transactions) ==
    IF nonce > MaxNonce THEN nonce
    ELSE IF ~ValidProof(nonce, previousHash, transactions, MiningDifficulty)
         THEN ProofOfWorkLoop(nonce + 1, previousHash, transactions)
    ELSE nonce

(* ProofOfWork starting its search at nonce 1 *)
ProofOfWork_StartAtOne(ch, pl) ==
    LET transactions == CopyTransactionPool(pl)
        previousHash == Hash(LastBlock(ch))
    IN  ProofOfWorkLoop(1, previousHash, transactions)

ProofOfWork(ch, pl) ==
    LET transactions == CopyTransactionPool(pl)
        previousHash == Hash(LastBlock(ch))
    IN  ProofOfWorkLoop(0, previousHash, transactions)

(* float32 on whole units: a float32 has 24 significant bits, so that the  *)
(* whole numbers up to MantissaSpan in magnitude are float32 values and a  *)
(* larger one is rounded to the nearest multiple of its unit in the last   *)
(* place, to the even one of two equally near.                             *)
MantissaSpan == 2 ^ 24

RECURSIVE Ulp(_, _)
Ulp(a, u) == IF a < MantissaSpan * u THEN u ELSE Ulp(a, 2 * u)

Float32(x) ==
    LET a == IF x < 0 THEN -x ELSE x
        u == Ulp(a, 1)
        q == a \div u
        r == a % u
        m == IF 2 * r < u THEN q
             ELSE IF 2 * r > u THEN q + 1
             ELSE IF q % 2 = 0 THEN q ELSE q + 1
    IN  IF x < 0 THEN -(m * u) ELSE m * u

(* the inner loop with the second test as an else branch of the first *)
RECURSIVE TotalOverTransactions_ElseIf(_, _, _)
TotalOverTransactions_ElseIf(ts, blockchainAddress, totalAmount) ==
    IF ts = <<>> THEN totalAmount
    ELSE LET t == Head(ts)
             value == t.value
             a2 == IF blockchainAddress = t.recipientBlockchainAddress
                   THEN Float32(totalAmount + value)
                   ELSE IF blockchainAddress = t.senderBlockchainAddress
                        THEN Float32(totalAmount - value) ELSE totalAmount
         IN  TotalOverTransactions_ElseIf(Tail(ts), blockchainAddress, a2)

(* CalculateTotalAmount that never subtracts *)
RECURSIVE TotalOverTransactions_CreditOnly(_, _, _)
TotalOverTransactions_CreditOnly(ts, blockchainAddress, totalAmount) ==
    IF ts = <<>> THEN totalAmount
    ELSE LET t == Head(ts)
             value == t.value
             a1 == IF blockchainAddress = t.recipientBlockchainAddress
                   THEN Float32(totalAmount + value) ELSE totalAmount
         IN  TotalOverTransactions_CreditOnly(Tail(ts), blockchainAddress, a1)

(* the inner loop of CalculateTotalAmount over the transactions of a block *)
RECURSIVE TotalOverTransactions(_, _, _)
TotalOverTransactions(ts, blockchainAddress, totalAmount) ==
    IF ts = <<>> THEN totalAmount
    ELSE LET t == Head(ts)
             value == t.value
             a1 == IF blockchainAddress = t.recipientBlockchainAddress
                   THEN Float32(totalAmount + value) ELSE totalAmount
             a2 == IF blockchainAddress = t.senderBlockchainAddress
                   THEN Float32(a1 - value) ELSE a1
         IN  TotalOverTransactions(Tail(ts), blockchainAddress, a2)

(* the outer loop over the blocks of the chain *)
RECURSIVE TotalOverBlocks(_, _, _)
TotalOverBlocks(bs, blockchainAddress, totalAmount) ==
    IF bs = <<>> THEN totalAmount
    ELSE TotalOverBlocks(Tail(bs), blockchainAddress,
             TotalOverTransactions(Head(bs).transactions.elems,
                                   blockchainAddress, totalAmount))

CalculateTotalAmount(ch, blockchainAddress) ==
    TotalOverBlocks(ch, blockchainAddress, 0)

---------------------------------------------------------------------------
(* State-changing operations, as functions from the state before the call  *)
(* to the state after it                                                   *)

(* CreateBlock clearing the pool before the block is built from it *)
CreateBlock_ClearFirst(ch, pl, nonce, previousHash, now) ==
    LET b == NewBlock(nonce, previousHash, MakeSlice(<<>>), now)
    IN  [chain |-> Append(ch, b), pool |-> MakeSlice(<<>>), ret |-> b]

(* CreateBlock keeping only the new block *)
CreateBlock_Replace(ch, pl, nonce, previousHash, now) ==
    LET b == NewBlock(nonce, previousHash, pl, now)
    IN  [chain |-> <<b>>, pool |-> MakeSlice(<<>>), ret |-> b]

(* CreateBlock: [chain, pool, ret] after the call *)
CreateBlock(ch, pl, nonce, previousHash, now) ==
    LET b == NewBlock(nonce, previousHash, pl, now)
    IN  [chain |-> Append(ch, b), pool |-> MakeSlice(<<>>), ret |-> b]

(* The state of one Blockchain.  op is the last call with its arguments,   *)
(* ret the value the last call that ended returned (FALSE when it ended in *)
(* a panic), panicked whether a call has panicked (the panic is not        *)
(* recovered: no call follows it).  accepted is the history of the         *)
(* transactions for which AddTransaction returned true, in the order of    *)
(* the calls.  mining holds                                                *)
(* the position and the local variables of a Mining call that is executed  *)
(* statement by statement.  memory is the heap behind chain and            *)
(* transactionPool: the Transaction objects, the arrays of the slices and  *)
(* the slice headers; the specification SpecMemory keeps it, and there     *)
(* chain and transactionPool are what is read through it.                  *)
VARIABLES chain, transactionPool, blockchainAddress, port, op, ret, panicked,
          accepted, mining, memory

vars == <<chain, transactionPool, blockchainAddress, port, op, ret, panicked,
          accepted, mining, memory>>

(* what the statement-wise and the heap specifications add to the state *)
aux == <<mining, memory>>

(* AddTransaction with the balance check that the source has commented    *)
(* out: a sender whose CalculateTotalAmount is below the value is rejected *)
AddTransactionOutcomes_BalanceCheck(pl, sender, recipient, value, senderPublicKey, s) ==
    LET t == NewTransaction(sender, recipient, value)
    IN  IF sender = MiningSender
        THEN {[pool |-> append(pl, t), ret |-> TRUE, panic |-> FALSE]}
        ELSE {IF v = "panic" THEN [pool |-> pl, ret |-> FALSE, panic |-> TRUE]
              ELSE IF v = "true" /\ CalculateTotalAmount(chain, sender) >= value
                   THEN [pool |-> append(pl, t), ret |-> TRUE, panic |-> FALSE]
              ELSE [pool |-> pl, ret |-> FALSE, panic |-> FALSE]
              : v \in VerifyTransactionSignature(senderPublicKey, s, t)}

(* AddTransaction putting the transaction at the head of the pool *)
AddTransactionOutcomes_Prepend(pl, sender, recipient, value, senderPublicKey, s) ==
    LET t == NewTransaction(sender, recipient, value)
        added == MakeSlice(<<t>> \o pl.elems)
    IN  IF sender = MiningSender
        THEN {[pool |-> added, ret |-> TRUE, panic |-> FALSE]}
        ELSE {IF v = "panic" THEN [pool |-> pl, ret |-> FALSE, panic |-> TRUE]
              ELSE IF v = "true"
                   THEN [pool |-> added, ret |-> TRUE, panic |-> FALSE]
              ELSE [pool |-> pl, ret |-> FALSE, panic |-> FALSE]
              : v \in VerifyTransactionSignature(senderPublicKey, s, t)}

(* AddTransaction appending before the signature is looked at *)
AddTransactionOutcomes_AppendFirst(pl, sender, recipient, value, senderPublicKey, s) ==
    LET t == NewTransaction(sender, recipient, value)
    IN  IF sender = MiningSender
        THEN {[pool |-> append(pl, t), ret |-> TRUE, panic |-> FALSE]}
        ELSE {IF v = "panic" THEN [pool |-> pl, ret |-> FALSE, panic |-> TRUE]
              ELSE [pool |-> append(pl, t), ret |-> (v = "true"), panic |-> FALSE]
              : v \in VerifyTransactionSignature(senderPublicKey, s, t)}

(* AddTransaction verifying the mining sender's transactions too *)
AddTransactionOutcomes_VerifyAll(pl, sender, recipient, value, senderPublicKey, s) ==
    LET t == NewTransaction(sender, recipient, value)
    IN  {IF v = "panic" THEN [pool |-> pl, ret |-> FALSE, panic |-> TRUE]
         ELSE IF v = "true"
              THEN [pool |-> append(pl, t), ret |-> TRUE, panic |-> FALSE]
         ELSE [pool |-> pl, ret |-> FALSE, panic |-> FALSE]
         : v \in VerifyTransactionSignature(senderPublicKey, s, t)}

(* AddTransaction: the set of possible [pool, ret, panic] after the call *)
AddTransactionOutcomes(pl, sender, recipient, value, senderPublicKey, s) ==
    LET t == NewTransaction(sender, recipient, value)
    IN  IF sender = MiningSender
        THEN {[pool |-> append(pl, t), ret |-> TRUE, panic |-> FALSE]}
        ELSE {IF v = "panic" THEN [pool |-> pl, ret |-> FALSE, panic |-> TRUE]
              ELSE IF v = "true"
                   THEN [pool |-> append(pl, t), ret |-> TRUE, panic |-> FALSE]
              ELSE [pool |-> pl, ret |-> FALSE, panic |-> FALSE]
              : v \in VerifyTransactionSignature(senderPublicKey, s, t)}

(* Mining linking the new block to the first block of the chain *)
MiningOutcomes_FirstBlockHash(ch, pl, address, now) ==
    {IF added.panic
     THEN [chain |-> ch, pool |-> pl, ret |-> FALSE, nonce |-> 0, panic |-> TRUE,
           added |-> FALSE]
     ELSE LET nonce == ProofOfWork(ch, added.pool)
              previousHash == Hash(ch[1])
              created == CreateBlock(ch, added.pool, nonce, previousHash, now)
          IN  [chain |-> created.chain, pool |-> created.pool, ret |-> TRUE,
               nonce |-> nonce, panic |-> FALSE, added |-> added.ret]
     : added \in AddTransactionOutcomes(pl, MiningSender, address, MiningReward,
                                         NilPublicKey, NilSignature)}

(* Mining searching the nonce before the reward is submitted *)
MiningOutcomes_ProofBeforeReward(ch, pl, address, now) ==
    {IF added.panic
     THEN [chain |-> ch, pool |-> pl, ret |-> FALSE, nonce |-> 0, panic |-> TRUE,
           added |-> FALSE]
     ELSE LET nonce == ProofOfWork(ch, pl)
              previousHash == Hash(LastBlock(ch))
              created == CreateBlock(ch, added.pool, nonce, previousHash, now)
          IN  [chain |-> created.chain, pool |-> created.pool, ret |-> TRUE,
               nonce |-> nonce, panic |-> FALSE, added |-> added.ret]
     : added \in AddTransactionOutcomes(pl, MiningSender, address, MiningReward,
                                         NilPublicKey, NilSignature)}

(* Mining: the set of possible [chain, pool, ret, nonce, panic, added]     *)
(* after the call; now is the instant NewBlock reads and added what        *)
(* AddTransaction returned.  Mining does not look at that result; a panic  *)
(* in AddTransaction ends the call.                                        *)
MiningOutcomes(ch, pl, address, now) ==
    {IF added.panic
     THEN [chain |-> ch, pool |-> pl, ret |-> FALSE, nonce |-> 0, panic |-> TRUE,
           added |-> FALSE]
     ELSE LET nonce == ProofOfWork(ch, added.pool)
              previousHash == Hash(LastBlock(ch))
              created == CreateBlock(ch, added.pool, nonce, previousHash, now)
          IN  [chain |-> created.chain, pool |-> created.pool, ret |-> TRUE,
               nonce |-> nonce, panic |-> FALSE, added |-> added.ret]
     : added \in AddTransactionOutcomes(pl, MiningSender, address, MiningReward,
                                         NilPublicKey, NilSignature)}

---------------------------------------------------------------------------
(* The heap.  A memory m has m.objects, the Transaction objects by         *)
(* pointer, m.arrays, the arrays of pointers behind the slices (cell 0 is  *)
(* a nil pointer), m.pool, the slice header bc.transactionPool, m.blocks,  *)
(* the blocks of bc.chain with the slice header of their transactions,     *)
(* and m.snapshot, the slice header CopyTransactionPool last returned to   *)
(* its caller.  A slice header is [isNil, arr, len, cap]; arr is 0 when    *)
(* the slice has no array.  A pointer or an array that nothing refers to   *)
(* is collected, and a new one takes the lowest free address.              *)
NilSliceRef == [isNil |-> TRUE, arr |-> 0, len |-> 0, cap |-> 0]

(* []*Transaction{} and make([]*Transaction, 0) *)
EmptySliceRef == [isNil |-> FALSE, arr |-> 0, len |-> 0, cap |-> 0]

Fresh(f) ==
    CHOOSE i \in 1..(Cardinality(DOMAIN f) + 1) :
        i \notin DOMAIN f /\ \A j \in 1..(i - 1) : j \in DOMAIN f

(* the pointers a slice holds, and the slice as its reader sees it *)
Pointers(m, sl) ==
    IF sl.arr = 0 THEN <<>> ELSE SubSeq(m.arrays[sl.arr], 1, sl.len)

View(m, sl) ==
    LET ps == Pointers(m, sl)
    IN  [isNil |-> sl.isNil, elems |-> [i \in 1..sl.len |-> m.objects[ps[i]]]]

ChainView(m) ==
    [i \in 1..Len(m.blocks) |->
        [m.blocks[i] EXCEPT !.transactions = View(m, m.blocks[i].transactions)]]

(* what the garbage collector leaves of m *)
Collect(m) ==
    LET roots == {m.pool, m.snapshot}
                     \cup {m.blocks[i].transactions : i \in 1..Len(m.blocks)}
        arrs == {sl.arr : sl \in roots} \ {0}
        objs == UNION {{m.arrays[a][i] : i \in 1..Len(m.arrays[a])} : a \in arrs}
                    \ {0}
    IN  [m EXCEPT !.arrays = [a \in arrs |-> m.arrays[a]],
                  !.objects = [q \in objs |-> m.objects[q]]]

(* &Transaction{...}: [mem, ptr] *)
MemoryNewTransaction(m, sender, recipient, value) ==
    LET q == Fresh(m.objects)
    IN  [mem |-> [m EXCEPT !.objects = (q :> NewTransaction(sender, recipient, value))
                                          @@ m.objects],
         ptr |-> q]

(* append(sl, q): [mem, slice].  The array is written in place while it    *)
(* has room and is otherwise copied into a new one of twice the capacity.  *)
MemoryAppend(m, sl, q) ==
    IF sl.len < sl.cap
    THEN [mem |-> [m EXCEPT !.arrays[sl.arr][sl.len + 1] = q],
          slice |-> [sl EXCEPT !.isNil = FALSE, !.len = sl.len + 1]]
    ELSE LET a == Fresh(m.arrays)
             newcap == IF sl.cap = 0 THEN 1 ELSE 2 * sl.cap
             cells == [i \in 1..newcap |->
                          IF i <= sl.len THEN m.arrays[sl.arr][i]
                          ELSE IF i = sl.len + 1 THEN q ELSE 0]
         IN  [mem |-> [m EXCEPT !.arrays = (a :> cells) @@ m.arrays],
              slice |-> [isNil |-> FALSE, arr |-> a, len |-> sl.len + 1,
                         cap |-> newcap]]

(* CopyTransactionPool returning the pointers of the pool in a new slice *)
RECURSIVE MemoryCopyLoop_SamePointers(_, _, _)
MemoryCopyLoop_SamePointers(m, ps, transactions) ==
    IF ps = <<>> THEN [mem |-> m, slice |-> transactions]
    ELSE LET ap == MemoryAppend(m, transactions, Head(ps))
         IN  MemoryCopyLoop_SamePointers(ap.mem, Tail(ps), ap.slice)

(* the loop of CopyTransactionPool over the pointers ps of the pool *)
RECURSIVE MemoryCopyLoop(_, _, _)
MemoryCopyLoop(m, ps, transactions) ==
    IF ps = <<>> THEN [mem |-> m, slice |-> transactions]
    ELSE LET t == m.objects[Head(ps)]
             nt == MemoryNewTransaction(m, t.senderBlockchainAddress,
                                        t.recipientBlockchainAddress, t.value)
             ap == MemoryAppend(nt.mem, transactions, nt.ptr)
         IN  MemoryCopyLoop(ap.mem, Tail(ps), ap.slice)

(* CopyTransactionPool: [mem, slice] *)
MemoryCopyTransactionPool(m) ==
    MemoryCopyLoop(m, Pointers(m, m.pool), EmptySliceRef)

(* CreateBlock emptying the pool by reslicing it: pool = pool[:0] *)
MemoryCreateBlock_Reslice(m, nonce, previousHash, now) ==
    LET b == [timestamp |-> now, nonce |-> nonce, previousHash |-> previousHash,
              transactions |-> m.pool]
    IN  [m EXCEPT !.blocks = Append(m.blocks, b),
                  !.pool = [m.pool EXCEPT !.isNil = FALSE, !.len = 0]]

(* CreateBlock: the block takes the slice header of the pool, the pool a   *)
(* new empty slice                                                         *)
MemoryCreateBlock(m, nonce, previousHash, now) ==
    LET b == [timestamp |-> now, nonce |-> nonce, previousHash |-> previousHash,
              transactions |-> m.pool]
    IN  [m EXCEPT !.blocks = Append(m.blocks, b), !.pool = EmptySliceRef]

(* AddTransaction: the set of possible [mem, ret, panic] *)
MemoryAddTransaction(m, sender, recipient, value, senderPublicKey, s) ==
    LET nt == MemoryNewTransaction(m, sender, recipient, value)
        t == nt.mem.objects[nt.ptr]
        ap == MemoryAppend(nt.mem, nt.mem.pool, nt.ptr)
        added == [ap.mem EXCEPT !.pool = ap.slice]
    IN  IF sender = MiningSender
        THEN {[mem |-> added, ret |-> TRUE, panic |-> FALSE]}
        ELSE {IF v = "panic" THEN [mem |-> m, ret |-> FALSE, panic |-> TRUE]
              ELSE IF v = "true"
                   THEN [mem |-> added, ret |-> TRUE, panic |-> FALSE]
              ELSE [mem |-> m, ret |-> FALSE, panic |-> FALSE]
              : v \in VerifyTransactionSignature(senderPublicKey, s, t)}

(* Mining: the set of possible [mem, ret, panic, nonce, added]; the copy   *)
(* of the pool that ProofOfWork makes is dropped when it returns           *)
MemoryMining(m, address, now) ==
    {IF a.panic
     THEN [mem |-> m, ret |-> FALSE, panic |-> TRUE, nonce |-> 0, added |-> FALSE]
     ELSE LET ch == ChainView(a.mem)
              nonce == ProofOfWork(ch, View(a.mem, a.mem.pool))
              previousHash == Hash(LastBlock(ch))
          IN  [mem |-> MemoryCreateBlock(a.mem, nonce, previousHash, now),
               ret |-> TRUE, panic |-> FALSE, nonce |-> nonce, added |-> a.ret]
     : a \in MemoryAddTransaction(m, MiningSender, address, MiningReward,
                                  NilPublicKey, NilSignature)}

(* NewBlockchain: the genesis block holds the nil pool *)
MemoryNewBlockchain(now) ==
    LET b == ZeroBlock
        m == [objects |-> <<>>, arrays |-> <<>>, pool |-> NilSliceRef,
              blocks |-> <<>>, snapshot |-> NilSliceRef]
    IN  MemoryCreateBlock(m, 0, Hash(b), now)

---------------------------------------------------------------------------
(* no Mining call is in progress *)
MiningIdle ==
    [pc |-> "idle", nonce |-> 0, transactions |-> NilSlice,
     previousHash |-> ZeroHash]

(* NewBlockchain giving the genesis block the zero hash *)
NewBlockchain_ZeroHash(address, p, now) ==
    LET created == CreateBlock(<<>>, NilSlice, 0, ZeroHash, now)
    IN  [chain |-> created.chain, pool |-> created.pool,
         blockchainAddress |-> address, port |-> p]

(* NewBlockchain: the pool is nil when the genesis block is created *)
NewBlockchain(address, p, now) ==
    LET b == ZeroBlock
        created == CreateBlock(<<>>, NilSlice, 0, Hash(b), now)
    IN  [chain |-> created.chain, pool |-> created.pool,
         blockchainAddress |-> address, port |-> p]

Init ==
    \E address \in NodeAddrs, p \in Ports, now \in Times :
        LET bc == NewBlockchain(address, p, now)
        IN  /\ chain = bc.chain
            /\ transactionPool = bc.pool
            /\ blockchainAddress = bc.blockchainAddress
            /\ port = bc.port
            /\ op = [name |-> "NewBlockchain", blockchainAddress |-> address,
                     port |-> p]
            /\ ret = TRUE
            /\ panicked = FALSE
            /\ accepted = <<>>
            /\ mining = MiningIdle
            /\ memory = MemoryNewBlockchain(now)

(* the transactions of the blocks of ch, in order *)
RECURSIVE ChainTransactions(_)
ChainTransactions(ch) ==
    IF ch = <<>> THEN <<>>
    ELSE Head(ch).transactions.elems \o ChainTransactions(Tail(ch))

(* the number of transactions in chain and pool that clients submitted:    *)
(* all but the rewards of Mining                                           *)
CountSubmitted(ch, pl, address) ==
    LET all == ChainTransactions(ch) \o pl.elems
    IN  Cardinality({i \in 1..Len(all) :
            all[i] # NewTransaction(MiningSender, address, MiningReward)})

(* The wallets: the key of the wallet that owns an address.  A wallet     *)
(* derives its address from its own public key, so no two wallets share    *)
(* an address.                                                             *)
OwnerKey(address) == IF address = "A" THEN 1 ELSE 2

(* Inputs of AddTransaction: the calls clients make, each a transfer with  *)
(* a public key and a signature.  Key 1 is the key of A's wallet and key 2 *)
(* the key of B's.                                                         *)
Digest(sender, recipient, value) ==
    Sum256(TransactionMarshalJSON(NewTransaction(sender, recipient, value)))

AddTransactionInputs ==
    { (* A pays B 2: signed by A's key, signed by B's key, A's signature  *)
      (* checked against B's key, A's signature of another value, a zero  *)
      (* signature, neither key nor signature, no key                      *)
      <<"A", "B", 2, PublicKey(1), Sign(1, Digest("A", "B", 2))>>,
      <<"A", "B", 2, PublicKey(2), Sign(2, Digest("A", "B", 2))>>,
      <<"A", "B", 2, PublicKey(2), Sign(1, Digest("A", "B", 2))>>,
      <<"A", "B", 2, PublicKey(1), Sign(1, Digest("A", "B", 3))>>,
      <<"A", "B", 2, PublicKey(1), Signature(0, 0)>>,
      <<"A", "B", 2, NilPublicKey, NilSignature>>,
      <<"A", "B", 2, NilPublicKey, Sign(1, Digest("A", "B", 2))>>,
      (* B pays A 1: signed by B's key, a zero signature *)
      <<"B", "A", 1, PublicKey(2), Sign(2, Digest("B", "A", 1))>>,
      <<"B", "A", 1, PublicKey(2), Signature(0, 0)>>,
      (* A pays A 1, signed by A's key *)
      <<"A", "A", 1, PublicKey(1), Sign(1, Digest("A", "A", 1))>>,
      (* the mining sender pays A MantissaSpan: neither key nor signature, *)
      (* a key with a zero signature                                       *)
      <<MiningSender, "A", MantissaSpan, NilPublicKey, NilSignature>>,
      <<MiningSender, "A", MantissaSpan, PublicKey(1), Signature(0, 0)>> }

CallAddTransaction ==
    /\ ~panicked
    /\ \E in \in AddTransactionInputs :
        \E o \in AddTransactionOutcomes(transactionPool, in[1], in[2], in[3],
                                        in[4], in[5]) :
            /\ len(o.pool) > len(transactionPool) =>
                   CountSubmitted(chain, transactionPool, blockchainAddress) < MaxTx
            /\ transactionPool' = o.pool
            /\ panicked' = o.panic
            /\ ret' = IF o.panic THEN FALSE ELSE o.ret
            /\ op' = [name |-> "AddTransaction", sender |-> in[1],
                      recipient |-> in[2], value |-> in[3],
                      senderPublicKey |-> in[4], s |-> in[5]]
            /\ accepted' = IF ~o.panic /\ o.ret
                            THEN Append(accepted,
                                        NewTransaction(in[1], in[2], in[3]))
                            ELSE accepted
            /\ UNCHANGED <<chain, blockchainAddress, port>>
            /\ UNCHANGED aux

CallMining ==
    /\ ~panicked
    /\ Len(chain) < MaxChain
    /\ \E now \in Times :
        \E o \in MiningOutcomes(chain, transactionPool, blockchainAddress, now) :
            /\ o.nonce <= MaxNonce
            /\ chain' = o.chain
            /\ transactionPool' = o.pool
            /\ panicked' = o.panic
            /\ ret' = IF o.panic THEN FALSE ELSE o.ret
            /\ op' = [name |-> "Mining"]
            /\ accepted' = IF o.added
                            THEN Append(accepted,
                                        NewTransaction(MiningSender,
                                            blockchainAddress, MiningReward))
                            ELSE accepted
            /\ UNCHANGED <<blockchainAddress, port>>
            /\ UNCHANGED aux

CallProofOfWork ==
    /\ ~panicked
    /\ LET nonce == ProofOfWork(chain, transactionPool)
       IN  /\ nonce <= MaxNonce
           /\ ret' = nonce
    /\ op' = [name |-> "ProofOfWork"]
    /\ UNCHANGED <<chain, transactionPool, blockchainAddress, port, panicked,
                   accepted>>
    /\ UNCHANGED aux

(* ValidProof on a nonce, the hash of the last block, the copy of the pool *)
(* and a difficulty                                                        *)
CallValidProof ==
    /\ ~panicked
    /\ \E nonce \in 0..1, previousHash \in {Hash(LastBlock(chain))},
          difficulty \in {MiningDifficulty} :
        LET transactions == CopyTransactionPool(transactionPool)
        IN  /\ ret' = ValidProof(nonce, previousHash, transactions, difficulty)
            /\ op' = [name |-> "ValidProof", nonce |-> nonce,
                      previousHash |-> previousHash,
                      transactions |-> transactions, difficulty |-> difficulty]
    /\ UNCHANGED <<chain, transactionPool, blockchainAddress, port, panicked,
                   accepted>>
    /\ UNCHANGED aux

CallCopyTransactionPool ==
    /\ ~panicked
    /\ ret' = CopyTransactionPool(transactionPool)
    /\ op' = [name |-> "CopyTransactionPool"]
    /\ UNCHANGED <<chain, transactionPool, blockchainAddress, port, panicked,
                   accepted>>
    /\ UNCHANGED aux

CallCalculateTotalAmount ==
    /\ ~panicked
    /\ \E a \in Senders :
        /\ ret' = CalculateTotalAmount(chain, a)
        /\ op' = [name |-> "CalculateTotalAmount", blockchainAddress |-> a]
    /\ UNCHANGED <<chain, transactionPool, blockchainAddress, port, panicked,
                   accepted>>
    /\ UNCHANGED aux

(* CreateBlock called by a client of the package: nonce 0 with the zero    *)
(* hash, nonce 1 with the hash of the last block                           *)
CallCreateBlock ==
    /\ ~panicked
    /\ Len(chain) < MaxChain
    /\ \E in \in {<<0, ZeroHash>>, <<1, Hash(LastBlock(chain))>>}, now \in Times :
        LET nonce == in[1]
            previousHash == in[2]
            created == CreateBlock(chain, transactionPool, nonce, previousHash, now)
        IN  /\ chain' = created.chain
            /\ transactionPool' = created.pool
            /\ ret' = created.ret
            /\ op' = [name |-> "CreateBlock", nonce |-> nonce,
                      previousHash |-> previousHash]
    /\ UNCHANGED <<blockchainAddress, port, panicked, accepted>>
    /\ UNCHANGED aux

Reads ==
    \/ CallProofOfWork
    \/ CallValidProof
    \/ CallCopyTransactionPool
    \/ CallCalculateTotalAmount

(* A Blockchain driven through AddTransaction and Mining *)
Next ==
    \/ CallAddTransaction
    \/ CallMining
    \/ Reads

Spec == Init /\ [][Next]_vars

(* A Blockchain driven through every exported mutation, CreateBlock too *)
NextAPI ==
    \/ CallAddTransaction
    \/ CallMining
    \/ CallCreateBlock

SpecAPI == Init /\ [][NextAPI]_vars

---------------------------------------------------------------------------
(* Mining executed statement by statement.  mining.pc is the statement the *)
(* call is at; mining.transactions, mining.previousHash and mining.nonce   *)
(* are the local variables of its ProofOfWork.                             *)

(* the loop of ProofOfWork that never advances the nonce *)
ProofOfWorkIteration_NoIncrement(nonce, previousHash, transactions) ==
    IF ~ValidProof(nonce, previousHash, transactions, MiningDifficulty)
    THEN [nonce |-> nonce, done |-> FALSE]
    ELSE [nonce |-> nonce, done |-> TRUE]

(* one test of the loop of ProofOfWork: the nonce after it and whether the *)
(* loop is left                                                            *)
ProofOfWorkIteration(nonce, previousHash, transactions) ==
    IF ~ValidProof(nonce, previousHash, transactions, MiningDifficulty)
    THEN [nonce |-> nonce + 1, done |-> FALSE]
    ELSE [nonce |-> nonce, done |-> TRUE]

(* Mining, first statement: the reward is submitted *)
MiningAddTransaction ==
    /\ ~panicked
    /\ mining.pc = "idle"
    /\ Len(chain) < MaxChain
    /\ \E o \in AddTransactionOutcomes(transactionPool, MiningSender,
                    blockchainAddress, MiningReward, NilPublicKey, NilSignature) :
        /\ transactionPool' = o.pool
        /\ panicked' = o.panic
        /\ accepted' = IF ~o.panic /\ o.ret
                        THEN Append(accepted,
                                    NewTransaction(MiningSender, blockchainAddress,
                                                   MiningReward))
                        ELSE accepted
        /\ mining' = [mining EXCEPT !.pc = IF o.panic THEN "idle" ELSE "ProofOfWork"]
        /\ ret' = IF o.panic THEN FALSE ELSE ret
    /\ op' = [name |-> "Mining"]
    /\ UNCHANGED <<chain, blockchainAddress, port, memory>>

(* ProofOfWork, before the loop: the pool is copied, the last block hashed *)
ProofOfWorkSnapshot ==
    /\ ~panicked
    /\ mining.pc = "ProofOfWork"
    /\ mining' = [pc |-> "search", nonce |-> 0,
                  transactions |-> CopyTransactionPool(transactionPool),
                  previousHash |-> Hash(LastBlock(chain))]
    /\ UNCHANGED <<chain, transactionPool, blockchainAddress, port, op, ret,
                   panicked, accepted, memory>>

(* ProofOfWork, one test of the loop *)
ProofOfWorkStep ==
    /\ ~panicked
    /\ mining.pc = "search"
    /\ \E it \in {ProofOfWorkIteration(mining.nonce, mining.previousHash,
                                         mining.transactions)} :
           /\ it.nonce <= MaxNonce
           /\ mining' = [mining EXCEPT !.nonce = it.nonce,
                             !.pc = IF it.done THEN "CreateBlock" ELSE "search"]
    /\ UNCHANGED <<chain, transactionPool, blockchainAddress, port, op, ret,
                   panicked, accepted, memory>>

(* Mining, after ProofOfWork: the last block is hashed and CreateBlock     *)
(* seals the pool under the nonce found                                    *)
MiningCreateBlock ==
    /\ ~panicked
    /\ mining.pc = "CreateBlock"
    /\ \E now \in Times :
        LET previousHash == Hash(LastBlock(chain))
            created == CreateBlock(chain, transactionPool, mining.nonce,
                                   previousHash, now)
        IN  /\ chain' = created.chain
            /\ transactionPool' = created.pool
    /\ mining' = [mining EXCEPT !.pc = "idle"]
    /\ op' = [name |-> "Mining"]
    /\ ret' = TRUE
    /\ UNCHANGED <<blockchainAddress, port, panicked, accepted, memory>>

MiningSteps ==
    \/ ProofOfWorkSnapshot
    \/ ProofOfWorkStep
    \/ MiningCreateBlock

(* A Blockchain on which a client calls AddTransaction while a Mining call *)
(* is executing: the code takes no lock                                    *)
NextConcurrent ==
    \/ CallAddTransaction
    \/ MiningAddTransaction
    \/ MiningSteps

SpecConcurrent == Init /\ [][NextConcurrent]_vars

(* AddTransaction called while no Mining call is running *)
SerialAddTransaction ==
    /\ mining.pc = "idle"
    /\ CallAddTransaction

(* A Blockchain whose calls run one after another, Mining statement by     *)
(* statement; a Mining call that has started keeps running                 *)
NextSerial ==
    \/ SerialAddTransaction
    \/ MiningAddTransaction
    \/ MiningSteps

SpecSerial == Init /\ [][NextSerial]_vars /\ WF_vars(MiningSteps)

---------------------------------------------------------------------------
(* The Blockchain on the heap: every call acts on memory, and chain and    *)
(* transactionPool are what memory shows after it.  op is the name of the  *)
(* last call.                                                              *)
Shown(m) ==
    LET c == Collect(m)
    IN  /\ memory' = c
        /\ chain' = ChainView(c)
        /\ transactionPool' = View(c, c.pool)

(* the calls of AddTransaction here: A pays B 2, signed by A's key and    *)
(* with a zero signature                                                   *)
HeapInputs ==
    {in \in AddTransactionInputs :
        \/ in = <<"A", "B", 2, PublicKey(1), Sign(1, Digest("A", "B", 2))>>
        \/ in = <<"A", "B", 2, PublicKey(1), Signature(0, 0)>>}

HeapAddTransaction ==
    /\ ~panicked
    /\ \E in \in HeapInputs :
        \E o \in MemoryAddTransaction(memory, in[1], in[2], in[3], in[4], in[5]) :
            /\ o.ret => CountSubmitted(chain, transactionPool, blockchainAddress) < MaxTx
            /\ Shown(o.mem)
            /\ panicked' = o.panic
            /\ ret' = IF o.panic THEN FALSE ELSE o.ret
            /\ accepted' = IF ~o.panic /\ o.ret
                            THEN Append(accepted,
                                        NewTransaction(in[1], in[2], in[3]))
                            ELSE accepted
    /\ op' = [name |-> "AddTransaction"]
    /\ UNCHANGED <<blockchainAddress, port, mining>>

HeapMining ==
    /\ ~panicked
    /\ Len(chain) < MaxChain
    /\ \E now \in Times :
        \E o \in MemoryMining(memory, blockchainAddress, now) :
            /\ o.nonce <= MaxNonce
            /\ Shown(o.mem)
            /\ panicked' = o.panic
            /\ ret' = IF o.panic THEN FALSE ELSE o.ret
            /\ accepted' = IF o.added
                            THEN Append(accepted,
                                        NewTransaction(MiningSender,
                                            blockchainAddress, MiningReward))
                            ELSE accepted
    /\ op' = [name |-> "Mining"]
    /\ UNCHANGED <<blockchainAddress, port, mining>>

HeapCreateBlock ==
    /\ ~panicked
    /\ Len(chain) < MaxChain
    /\ \E in \in {<<1, Hash(LastBlock(chain))>>}, now \in Times :
        Shown(MemoryCreateBlock(memory, in[1], in[2], now))
    /\ op' = [name |-> "CreateBlock"]
    /\ ret' = LastBlock(chain')
    /\ UNCHANGED <<blockchainAddress, port, panicked, accepted, mining>>

(* CopyTransactionPool; the caller keeps the slice it returns *)
HeapCopyTransactionPool ==
    /\ ~panicked
    /\ LET c == MemoryCopyTransactionPool(memory)
       IN  /\ Shown([c.mem EXCEPT !.snapshot = c.slice])
           /\ ret' = View(c.mem, c.slice)
    /\ op' = [name |-> "CopyTransactionPool"]
    /\ UNCHANGED <<blockchainAddress, port, panicked, accepted, mining>>

(* ProofOfWork; the copy of the pool it makes is dropped when it returns *)
HeapProofOfWork ==
    /\ ~panicked
    /\ LET c == MemoryCopyTransactionPool(memory)
           nonce == ProofOfWorkLoop(0, Hash(LastBlock(ChainView(c.mem))),
                                    View(c.mem, c.slice))
       IN  /\ nonce <= MaxNonce
           /\ Shown(c.mem)
           /\ ret' = nonce
    /\ op' = [name |-> "ProofOfWork"]
    /\ UNCHANGED <<blockchainAddress, port, panicked, accepted, mining>>

NextMemory ==
    \/ HeapAddTransaction
    \/ HeapMining
    \/ HeapCreateBlock
    \/ HeapCopyTransactionPool
    \/ HeapProofOfWork

SpecMemory == Init /\ [][NextMemory]_vars

---------------------------------------------------------------------------
(* Properties *)

IsPrefix(a, b) == Len(a) <= Len(b) /\ SubSeq(b, 1, Len(a)) = a

(* the transaction of the last AddTransaction call *)
OpTransaction(o) == NewTransaction(o.sender, o.recipient, o.value)

(* the reward transaction Mining submits *)
RewardTransaction == NewTransaction(MiningSender, blockchainAddress, MiningReward)

(* the positions <<block, index>> of the transactions of the chain ch *)
Positions(ch) ==
    UNION {{<<i, j>> : j \in 1..len(ch[i].transactions)} : i \in 1..Len(ch)}

TransactionAt(ch, p) == ch[p[1]].transactions.elems[p[2]]

RECURSIVE SumValues(_, _)
SumValues(ch, ps) ==
    IF ps = {} THEN 0
    ELSE LET p == CHOOSE q \in ps : TRUE
         IN  TransactionAt(ch, p).value + SumValues(ch, ps \ {p})

Received(ch, a) ==
    SumValues(ch, {p \in Positions(ch) :
                      TransactionAt(ch, p).recipientBlockchainAddress = a})

Sent(ch, a) ==
    SumValues(ch, {p \in Positions(ch) :
                      TransactionAt(ch, p).senderBlockchainAddress = a})

(* C1: every block after the first holds, as previousHash, the hash of the *)
(* block before it.                                                        *)
ChainIntegrity ==
    \A i \in 2..Len(chain) : chain[i].previousHash = Hash(chain[i - 1])

ChainIntegrityWitness ==
    /\ Len(chain) >= 3
    /\ chain[3].previousHash # chain[2].previousHash

(* C2: every block after the first satisfies ValidProof for its nonce, its *)
(* previousHash and its transactions at MiningDifficulty.                  *)
ProofOfWorkValidity ==
    \A i \in 2..Len(chain) :
        ValidProof(chain[i].nonce, chain[i].previousHash,
                   chain[i].transactions, MiningDifficulty)

ProofOfWorkValidityWitness ==
    \E i \in 2..Len(chain) :
        /\ chain[i].nonce > 0
        /\ ~ValidProof(0, chain[i].previousHash, chain[i].transactions,
                       MiningDifficulty - 1)

(* C3: AddTransaction for a sender other than MiningSender, with a key and *)
(* a signature given: when the signature does not verify it returns false  *)
(* and pool and chain stay as they are; when it verifies it returns true,  *)
(* the pool is the old pool with the transaction appended and the chain    *)
(* stays as it is.                                                         *)
SignatureGate ==
    [][(/\ op'.name = "AddTransaction"
        /\ op'.sender # MiningSender
        /\ ~op'.s.isNil
        /\ ~op'.senderPublicKey.isNil)
       => LET t == OpTransaction(op')
              h == Sum256(TransactionMarshalJSON(t))
          IN  IF ecdsaVerify(op'.senderPublicKey, h, op'.s.R, op'.s.S)
              THEN /\ ~panicked'
                   /\ ret' = TRUE
                   /\ transactionPool'.elems = Append(transactionPool.elems, t)
                   /\ len(transactionPool') = len(transactionPool) + 1
                   /\ chain' = chain
              ELSE /\ ~panicked'
                   /\ ret' = FALSE
                   /\ transactionPool' = transactionPool
                   /\ chain' = chain]_vars

(* a forged signature was rejected after a signed transaction was accepted *)
SignatureGateWitness ==
    /\ op.name = "AddTransaction"
    /\ op.sender # MiningSender
    /\ op.senderPublicKey = PublicKey(2)
    /\ op.s = Sign(1, Digest(op.sender, op.recipient, op.value))
    /\ ~panicked
    /\ ret = FALSE
    /\ len(transactionPool) = 1
    /\ transactionPool.elems[1].senderBlockchainAddress # MiningSender

(* C4: after CreateBlock, called by a client or by Mining, the pool is     *)
(* empty, the chain is the old chain with one block appended, and the      *)
(* transactions of that block are the pool as it was before the call (in   *)
(* Mining: the pool with the reward appended).                             *)
PoolClearing ==
    [][(/\ op'.name \in {"CreateBlock", "Mining"}
        /\ ~panicked')
       => LET before == IF op'.name = "Mining"
                        THEN Append(transactionPool.elems, RewardTransaction)
                        ELSE transactionPool.elems
              b == LastBlock(chain')
          IN  /\ len(transactionPool') = 0
              /\ Len(chain') = Len(chain) + 1
              /\ IsPrefix(chain, chain')
              /\ len(b.transactions) = Len(before)
              /\ \A i \in 1..Len(before) : b.transactions.elems[i] = before[i]]_vars

PoolClearingWitness ==
    /\ op.name = "CreateBlock"
    /\ len(LastBlock(chain).transactions) = 2
    /\ LastBlock(chain).transactions.elems[1] # LastBlock(chain).transactions.elems[2]
    /\ len(transactionPool) = 0

(* C5: for every address, CalculateTotalAmount is the sum of the values of *)
(* the chain's transactions it receives minus the sum of those it sends,   *)
(* the pool not counting; the call returns that and changes neither chain  *)
(* nor pool.                                                               *)
BalanceAccounting ==
    /\ [](\A a \in Senders :
            CalculateTotalAmount(chain, a) = Received(chain, a) - Sent(chain, a))
    /\ [][op'.name = "CalculateTotalAmount"
          => /\ ~panicked'
             /\ ret' = Received(chain, op'.blockchainAddress)
                         - Sent(chain, op'.blockchainAddress)
             /\ chain' = chain
             /\ transactionPool' = transactionPool]_vars

(* C5, with float32 rounding: for every address whose transactions in the *)
(* chain have values summing to at most MantissaSpan, so that no running   *)
(* total is rounded, CalculateTotalAmount is the sum of the values it      *)
(* receives minus the sum of those it sends, the pool not counting; the    *)
(* call returns that and changes neither chain nor pool.                   *)
BalanceAccountingExact ==
    /\ [](\A a \in Senders :
            Received(chain, a) + Sent(chain, a) <= MantissaSpan
                => CalculateTotalAmount(chain, a)
                       = Received(chain, a) - Sent(chain, a))
    /\ [][op'.name = "CalculateTotalAmount"
          => /\ ~panicked'
             /\ Received(chain, op'.blockchainAddress)
                    + Sent(chain, op'.blockchainAddress) <= MantissaSpan
                    => ret' = Received(chain, op'.blockchainAddress)
                                - Sent(chain, op'.blockchainAddress)
             /\ chain' = chain
             /\ transactionPool' = transactionPool]_vars

(* the balance of an address that paid itself in the chain was asked for   *)
(* while a transaction naming it waits in the pool                         *)
BalanceAccountingWitness ==
    /\ op.name = "CalculateTotalAmount"
    /\ \E p \in Positions(chain) :
        /\ TransactionAt(chain, p).senderBlockchainAddress = op.blockchainAddress
        /\ TransactionAt(chain, p).recipientBlockchainAddress = op.blockchainAddress
    /\ \E i \in 1..len(transactionPool) :
        transactionPool.elems[i].recipientBlockchainAddress = op.blockchainAddress
    /\ ret = 2

(* C6: AddTransaction with sender MiningSender returns true and appends    *)
(* the transaction to the pool whatever the key and the signature are.     *)
RewardMinting ==
    [][(/\ op'.name = "AddTransaction"
        /\ op'.sender = MiningSender)
       => /\ ~panicked'
          /\ ret' = TRUE
          /\ transactionPool'.elems = Append(transactionPool.elems, OpTransaction(op'))
          /\ chain' = chain]_vars

RewardMintingWitness ==
    /\ op.name = "AddTransaction"
    /\ op.sender = MiningSender
    /\ op.s.isNil
    /\ op.senderPublicKey.isNil
    /\ ~panicked
    /\ ret = TRUE
    /\ len(transactionPool) = 2

(* C7: AddTransaction for a sender other than MiningSender with no or a    *)
(* malformed signature, or no public key, returns false without a panic    *)
(* and leaves pool and chain as they are.                                  *)
MalformedRejected ==
    [][(/\ op'.name = "AddTransaction"
        /\ op'.sender # MiningSender
        /\ \/ op'.s.isNil
           \/ op'.senderPublicKey.isNil
           \/ op'.s.R <= 0
           \/ op'.s.S <= 0)
       => /\ ~panicked'
          /\ ret' = FALSE
          /\ transactionPool' = transactionPool
          /\ chain' = chain]_vars

(* C8: the chain is never empty; every step keeps the old chain as a       *)
(* prefix of the new one; Mining adds one block; AddTransaction,           *)
(* ProofOfWork, ValidProof, CopyTransactionPool and CalculateTotalAmount   *)
(* keep its length.                                                        *)
AppendOnly ==
    /\ [](Len(chain) >= 1)
    /\ [][/\ IsPrefix(chain, chain')
          /\ (op'.name = "Mining" /\ ~panicked') => Len(chain') = Len(chain) + 1
          /\ op'.name \in {"AddTransaction", "ProofOfWork", "ValidProof",
                           "CopyTransactionPool", "CalculateTotalAmount"}
             => Len(chain') = Len(chain)]_vars

AppendOnlyWitness ==
    /\ op.name = "Mining"
    /\ Len(chain) = 3
    /\ chain[2] # chain[3]

(* C9: Mining returns true and appends one block: its transactions are the *)
(* pool followed by the reward transaction, its previousHash is the hash   *)
(* of the block that was last, its nonce is what ProofOfWork finds for     *)
(* that hash and those transactions; the pool is empty afterwards.         *)
MiningStep ==
    [][op'.name = "Mining"
       => LET P == append(transactionPool, RewardTransaction)
              L == LastBlock(chain)
              b == LastBlock(chain')
          IN  /\ ~panicked'
              /\ ret' = TRUE
              /\ chain' = Append(chain, b)
              /\ b.transactions.elems = P.elems
              /\ b.transactions.elems[len(b.transactions)] = RewardTransaction
              /\ b.previousHash = Hash(L)
              /\ b.nonce = ProofOfWorkLoop(0, Hash(L), P)
              /\ len(transactionPool') = 0]_vars

MiningStepWitness ==
    /\ op.name = "Mining"
    /\ ret = TRUE
    /\ LET b == LastBlock(chain)
           n == len(b.transactions)
       IN  /\ n >= 2
           /\ b.transactions.elems[n] = RewardTransaction
           /\ b.nonce > 0
           /\ b.nonce # ProofOfWorkLoop(0, b.previousHash,
                            MakeSlice(SubSeq(b.transactions.elems, 1, n - 1)))

(* C10: the nonce ProofOfWork returns satisfies ValidProof for the hash of *)
(* the last block and the copy of the pool, no smaller nonce does, and the *)
(* call changes neither pool nor chain.                                    *)
MinimalNonce ==
    [][op'.name = "ProofOfWork"
       => LET previousHash == Hash(LastBlock(chain))
              transactions == CopyTransactionPool(transactionPool)
          IN  /\ ~panicked'
              /\ ValidProof(ret', previousHash, transactions, MiningDifficulty)
              /\ \A m \in 0..(ret' - 1) :
                    ~ValidProof(m, previousHash, transactions, MiningDifficulty)
              /\ chain' = chain
              /\ transactionPool' = transactionPool]_vars

MinimalNonceWitness ==
    /\ op.name = "ProofOfWork"
    /\ ret >= 2
    /\ len(transactionPool) >= 1

(* C11: Mining is atomic with respect to AddTransaction: when a Mining     *)
(* call has returned, the block it appended holds exactly the transactions *)
(* and the previous hash over which its ProofOfWork searched the nonce,    *)
(* also when AddTransaction was called while it ran.                       *)
MiningAtomic ==
    (op.name = "Mining" /\ mining.pc = "idle") =>
        /\ LastBlock(chain).transactions.elems = mining.transactions.elems
        /\ LastBlock(chain).previousHash = mining.previousHash

(* C12: CopyTransactionPool returns new Transaction objects, as many as    *)
(* the pool holds, with the sender, recipient and value of the pool's at   *)
(* every position, sharing no object and no array with the pool; the call  *)
(* leaves pool and chain as they were; and what is read through a slice it *)
(* returned stays the same whatever is called later.                       *)
PoolSnapshot ==
    /\ [](op.name = "CopyTransactionPool" =>
            /\ ret = View(memory, memory.snapshot)
            /\ ~ret.isNil
            /\ ret.elems = transactionPool.elems
            /\ \A i \in 1..memory.snapshot.len, j \in 1..memory.pool.len :
                   Pointers(memory, memory.snapshot)[i]
                       # Pointers(memory, memory.pool)[j]
            /\ memory.snapshot.len > 0 => memory.snapshot.arr # memory.pool.arr)
    /\ [][/\ op'.name = "CopyTransactionPool" =>
                 /\ chain' = chain
                 /\ transactionPool' = transactionPool
                 /\ Pointers(memory', memory'.pool) = Pointers(memory, memory.pool)
          /\ op'.name # "CopyTransactionPool" =>
                 /\ memory'.snapshot = memory.snapshot
                 /\ View(memory', memory'.snapshot) = View(memory, memory.snapshot)
         ]_vars

(* a slice of two transactions was returned and the pool has changed since *)
PoolSnapshotWitness ==
    /\ memory.snapshot.len >= 2
    /\ op.name # "CopyTransactionPool"
    /\ View(memory, memory.snapshot).elems # transactionPool.elems

(* C13: a transaction whose sender is an address other than MiningSender   *)
(* enters the pool only when the call carries the public key of the wallet *)
(* that owns the sender address and a signature of the transaction made    *)
(* with that wallet's private key.                                         *)
SenderAuthentication ==
    [][(/\ op'.name = "AddTransaction"
        /\ op'.sender # MiningSender
        /\ len(transactionPool') > len(transactionPool))
       => /\ op'.senderPublicKey = PublicKey(OwnerKey(op'.sender))
          /\ op'.s = Sign(OwnerKey(op'.sender),
                          Sum256(TransactionMarshalJSON(OpTransaction(op'))))]_vars

(* C14: AddTransaction does not look at balances: for a sender other than  *)
(* MiningSender, with a key and a signature, it returns whether the        *)
(* signature verifies for the key and the transaction, whatever chain,     *)
(* pool and CalculateTotalAmount of the sender are.                        *)
BalanceNotEnforced ==
    (/\ op.name = "AddTransaction"
     /\ op.sender # MiningSender
     /\ ~op.s.isNil
     /\ ~op.senderPublicKey.isNil)
    => ret = ecdsaVerify(op.senderPublicKey,
                         Digest(op.sender, op.recipient, op.value),
                         op.s.R, op.s.S)

(* a block was mined that leaves an address with a negative total *)
BalanceNotEnforcedWitness ==
    /\ op.name = "Mining"
    /\ \E a \in Addrs : CalculateTotalAmount(chain, a) < 0

(* C15: a block of the chain is never changed: whatever is called, every   *)
(* block keeps its timestamp, nonce, previousHash and transactions, the    *)
(* same objects in the same order; and the pool never shares its array     *)
(* with a block, so that what is appended to the pool is in no block.      *)
BlocksFrozen ==
    /\ [](\A i \in 1..Len(memory.blocks) :
              memory.blocks[i].transactions.arr # 0
                  => memory.blocks[i].transactions.arr # memory.pool.arr)
    /\ [][\A i \in 1..Len(chain) :
              /\ i <= Len(chain')
              /\ chain'[i] = chain[i]
              /\ memory'.blocks[i] = memory.blocks[i]
              /\ Pointers(memory', memory'.blocks[i].transactions)
                     = Pointers(memory, memory.blocks[i].transactions)
         ]_vars

(* a transaction was appended to the pool after a block that holds         *)
(* transactions was created                                                *)
BlocksFrozenWitness ==
    /\ Len(chain) >= 2
    /\ len(chain[2].transactions) >= 2
    /\ op.name = "AddTransaction"
    /\ ret = TRUE
    /\ len(transactionPool) >= 1

(* some nonce up to MaxNonce satisfies ValidProof: the search from 0 finds *)
(* the least of them                                                       *)
SomeValidProof(previousHash, transactions) ==
    LET n == ProofOfWorkLoop(0, previousHash, transactions)
    IN  /\ n <= MaxNonce
        /\ ValidProof(n, previousHash, transactions, MiningDifficulty)

(* C16: when some nonce satisfies ValidProof for the previous hash and the *)
(* copy of the pool that ProofOfWork took, the search ends and Mining      *)
(* appends its block; the search ends only at a nonce that satisfies       *)
(* ValidProof, and as long as it has not ended chain and pool stay as the  *)
(* reward submission left them.                                            *)
ProofOfWorkTermination ==
    /\ (/\ mining.pc = "search"
        /\ SomeValidProof(mining.previousHash, mining.transactions))
           ~> (/\ mining.pc = "idle"
               /\ op.name = "Mining"
               /\ LastBlock(chain).nonce = mining.nonce
               /\ LastBlock(chain).transactions.elems = mining.transactions.elems)
    /\ [][mining.pc = "search" =>
              /\ chain' = chain
              /\ transactionPool' = transactionPool
              /\ mining'.pc # "search" =>
                     /\ mining'.pc = "CreateBlock"
                     /\ ValidProof(mining'.nonce, mining.previousHash,
                                   mining.transactions, MiningDifficulty)
         ]_vars

(* a Mining call has returned whose search went past nonce 0 *)
ProofOfWorkTerminationWitness ==
    /\ mining.pc = "idle"
    /\ op.name = "Mining"
    /\ mining.nonce >= 1
    /\ LastBlock(chain).nonce = mining.nonce

(* C17: right after NewBlockchain(blockchainAddress, port) the chain is    *)
(* one block with nonce 0, no transactions and, as previousHash, the hash  *)
(* of the Block whose fields are all zero; the pool is empty and the       *)
(* Blockchain has the address and the port given.                          *)
GenesisState ==
    op.name = "NewBlockchain" =>
        /\ Len(chain) = 1
        /\ chain[1].nonce = 0
        /\ len(chain[1].transactions) = 0
        /\ chain[1].previousHash
               = Hash([timestamp |-> 0, nonce |-> 0, previousHash |-> ZeroHash,
                       transactions |-> NilSlice])
        /\ len(transactionPool) = 0
        /\ blockchainAddress = op.blockchainAddress
        /\ port = op.port

(* the Blockchain as NewBlockchain returns it; the hash of the zero Block  *)
(* is not the zero hash                                                    *)
GenesisStateWitness ==
    /\ op.name = "NewBlockchain"
    /\ Len(chain) = 1
    /\ chain[1].previousHash # ZeroHash

(* C18: the transactions of the blocks of the chain, block after block,    *)
(* followed by those of the pool are the transactions for which            *)
(* AddTransaction returned true, the rewards that Mining submits among     *)
(* them, in the order of the calls; none is lost, repeated or moved, and   *)
(* one accepted twice is there twice.                                      *)
NoTransactionLost ==
    ChainTransactions(chain) \o transactionPool.elems = accepted

(* the same transaction was accepted twice, and a block was mined before   *)
(* the second was accepted                                                 *)
NoTransactionLostWitness ==
    /\ Len(chain) >= 2
    /\ len(chain[2].transactions) >= 2
    /\ len(transactionPool) >= 1
    /\ ~panicked
    /\ \E i \in 1..len(chain[2].transactions) :
           /\ chain[2].transactions.elems[i] = transactionPool.elems[1]
           /\ transactionPool.elems[1].senderBlockchainAddress # MiningSender

(* the sum of CalculateTotalAmount over the addresses as *)
RECURSIVE TotalOfAddresses(_, _)
TotalOfAddresses(ch, as) ==
    IF as = {} THEN 0
    ELSE LET a == CHOOSE x \in as : TRUE
         IN  CalculateTotalAmount(ch, a) + TotalOfAddresses(ch, as \ {a})

(* C19: the CalculateTotalAmount of all addresses, MiningSender among      *)
(* them, sum to zero; the CalculateTotalAmount of the addresses other than *)
(* MiningSender sum to the value of the chain's transactions that          *)
(* MiningSender sends.                                                     *)
ValueConserved ==
    /\ TotalOfAddresses(chain, Senders) = 0
    /\ TotalOfAddresses(chain, Addrs) = Sent(chain, MiningSender)

(* C19, with float32 rounding: when the values of the chain's transactions *)
(* sum to at most MantissaSpan, so that no running total is rounded, the   *)
(* CalculateTotalAmount of all addresses, MiningSender among them, sum to  *)
(* zero, and those of the addresses other than MiningSender sum to the     *)
(* value of the chain's transactions that MiningSender sends.              *)
ValueConservedExact ==
    SumValues(chain, Positions(chain)) <= MantissaSpan =>
        /\ TotalOfAddresses(chain, Senders) = 0
        /\ TotalOfAddresses(chain, Addrs) = Sent(chain, MiningSender)

(* a chain where A and B have paid each other and two rewards were minted *)
ValueConservedExactWitness ==
    /\ Len(chain) = 3
    /\ SumValues(chain, Positions(chain)) <= MantissaSpan
    /\ Sent(chain, "A") > 0
    /\ Sent(chain, "B") > 0
    /\ CalculateTotalAmount(chain, MiningSender) = -2

====
